---------------------------- MODULE Spec2Model ----------------------------
(***************************************************************************)
(* Model of app.py, the Streamlit chart maker.  Streamlit runs the script   *)
(* from the top on every interaction, with the widgets' current values:    *)
(* the data_editor table, the contrast slider, the chart-style selector.   *)
(* A behaviour of the model is one such run: Init draws the widgets'       *)
(* values, then the script processes the data (amplify_data) and draws the *)
(* radar or the bar chart.  An exception ends the run and is recorded.     *)
(* Of matplotlib only what the script's own results depend on is modelled: *)
(* set_ylim refusing a NaN limit.                                          *)
(*                                                                         *)
(* Numbers.  The script computes in float64.  The model computes in exact  *)
(* rational arithmetic: a number is a record [num, den] in lowest terms    *)
(* with den > 0, and float NaN (a missing table cell, the mean of an empty *)
(* array) is the record with den = 0.  NaN propagates through arithmetic   *)
(* and every ordered comparison with NaN is false, as in IEEE 754.         *)
(* Rounding to 53 bits and overflow to infinity are not modelled.          *)
(*                                                                         *)
(* Angles are kept as fractions of a full turn: the script's               *)
(* n / float(N) * 2 * np.pi is the model's n/N.                            *)
(***************************************************************************)
EXTENDS Integers, Sequences, FiniteSets, TLC

\* Largest number of rows of the tables enumerated as the data_editor's
\* content (the five-row default table is always among the tables).
MaxRows == 4

VARIABLES
  pc,               \* where the run is: "data", "plot" or "done"
  df,               \* the data_editor's table: a sequence of rows
  contrast_factor,  \* the slider's value
  chart_style,      \* the selectbox's value
  labels,           \* render: df[name].tolist()
  raw_values,       \* render: df[value].tolist()
  final_values,     \* render: amplify_data(raw_values, contrast_factor)
  angles,           \* render, radar: closed-loop angles (fractions of a turn)
  plot_values,      \* render, radar: closed-loop values
  ylim,             \* render, radar: <<bottom, top>> given to ax.set_ylim
  texts,            \* render, bar: the annotation strings, in order
  error             \* the exception that ended the rerun, or "none"

vars == <<pc, df, contrast_factor, chart_style, labels, raw_values, final_values,
          angles, plot_values, ylim, texts, error>>

---------------------------------------------------------------------------
\* float arithmetic, exactly

RECURSIVE GCD(_, _)
GCD(a, b) == IF b = 0 THEN a ELSE GCD(b, a % b)

Abs(n) == IF n < 0 THEN -n ELSE n

NaN == [num |-> 0, den |-> 0]

\* n/d in lowest terms with a positive denominator; x/0 is NaN
Rat(n, d) ==
  IF d = 0 THEN NaN
  ELSE LET g == GCD(Abs(n), Abs(d))
           s == IF d < 0 THEN -1 ELSE 1
       IN [num |-> s * (n \div g), den |-> s * (d \div g)]

Num(n) == Rat(n, 1)

IsNaN(x) == x.den = 0

RAdd(a, b) == IF IsNaN(a) \/ IsNaN(b) THEN NaN
              ELSE Rat(a.num * b.den + b.num * a.den, a.den * b.den)

RSub(a, b) == IF IsNaN(a) \/ IsNaN(b) THEN NaN
              ELSE Rat(a.num * b.den - b.num * a.den, a.den * b.den)

RMul(a, b) == IF IsNaN(a) \/ IsNaN(b) THEN NaN
              ELSE Rat(a.num * b.num, a.den * b.den)

\* a / n for an integer count n; 0.0 / 0 is NaN
RDivInt(a, n) == IF IsNaN(a) THEN NaN ELSE Rat(a.num, a.den * n)

\* ordered comparisons (>, >=): false when either side is NaN
RGt(a, b) == ~IsNaN(a) /\ ~IsNaN(b) /\ a.num * b.den > b.num * a.den
RGe(a, b) == ~IsNaN(a) /\ ~IsNaN(b) /\ a.num * b.den >= b.num * a.den

---------------------------------------------------------------------------
\* amplify_data

RECURSIVE np_sum(_)
np_sum(arr) == IF arr = << >> THEN Num(0)
               ELSE RAdd(arr[1], np_sum(Tail(arr)))

\* np.mean: the sum over the count; the mean of an empty array is 0.0/0 = nan
\* (numpy warns and returns nan, it does not raise)
np_mean(arr) == RDivInt(np_sum(arr), Len(arr))

\* np.maximum(x, y) propagates NaN
np_maximum(x, y) == IF IsNaN(x) \/ IsNaN(y) THEN NaN
                    ELSE IF RGe(x, y) THEN x ELSE y

\* faulty variant: the factor is dropped
StretchNoFactor(arr, factor) ==
  LET mean_val == np_mean(arr)
  IN [i \in 1..Len(arr) |-> RAdd(mean_val, RSub(arr[i], mean_val))]

\* faulty variant: the mean is not added back
StretchNoRecentre(arr, factor) ==
  LET mean_val == np_mean(arr)
  IN [i \in 1..Len(arr) |-> RMul(RSub(arr[i], mean_val), factor)]

\* faulty variant: stretches about the first value instead of the mean
StretchAboutFirst(arr, factor) ==
  LET c == IF Len(arr) >= 1 THEN arr[1] ELSE NaN
  IN [i \in 1..Len(arr) |-> RAdd(c, RMul(RSub(arr[i], c), factor))]

\* line 39: mean_val + (arr - mean_val) * factor, elementwise
Stretch(arr, factor) ==
  LET mean_val == np_mean(arr)
  IN [i \in 1..Len(arr) |-> RAdd(mean_val, RMul(RSub(arr[i], mean_val), factor))]

\* line 41: np.maximum(amplified, 0), elementwise
Clamp(amplified) ==
  [i \in 1..Len(amplified) |-> np_maximum(amplified[i], Num(0))]

\* faulty variant: the clamp is left out
amplify_data_unclamped(values, factor) == Stretch(values, factor)

amplify_data(values, factor) == Clamp(Stretch(values, factor))

---------------------------------------------------------------------------
\* the radar branch

\* angles = [n / float(N) * 2 * np.pi for n in range(N)], in turns
AngleList(N) == [k \in 1..N |-> Rat(k - 1, N)]

\* faulty variant: the loop is not closed
CloseAnglesOpen(a) == a

\* angles += angles[:1]
CloseAngles(a) == a \o SubSeq(a, 1, IF Len(a) >= 1 THEN 1 ELSE 0)

\* faulty variant: final_values[1], the second value
SecondValue(fv) == IF Len(fv) >= 2 THEN [ok |-> TRUE, val |-> fv[2]]
                   ELSE [ok |-> FALSE, val |-> NaN]

\* final_values[0]: IndexError on an empty array
FirstValue(fv) == IF Len(fv) >= 1 THEN [ok |-> TRUE, val |-> fv[1]]
                  ELSE [ok |-> FALSE, val |-> NaN]

\* Python's max over a non-empty iterable: keeps the first element unless a
\* later one compares greater
RECURSIVE PyMaxFrom(_, _)
PyMaxFrom(best, rest) ==
  IF rest = << >> THEN best
  ELSE PyMaxFrom(IF RGt(rest[1], best) THEN rest[1] ELSE best, Tail(rest))

PyMax(s) == PyMaxFrom(s[1], Tail(s))

\* faulty variant: the margin is left out
YTopNoMargin(fv) == PyMax(fv)

\* max(final_values) * 1.1
YTop(fv) == RMul(PyMax(fv), Rat(11, 10))

NotRun == [angles |-> << >>, plot_values |-> << >>, ylim |-> << >>,
           texts |-> << >>, error |-> "none"]

RenderRadar(lab, fv) ==
  LET N     == Len(lab)
      ang   == CloseAngles(AngleList(N))
      first == FirstValue(fv)
  IN IF ~first.ok
       THEN [NotRun EXCEPT !.angles = ang, !.error = "IndexError"]
     ELSE LET pv == fv \o <<first.val>>
              top == YTop(fv)
          IN IF IsNaN(top)   \* set_ylim refuses a NaN limit
               THEN [NotRun EXCEPT !.angles = ang, !.plot_values = pv,
                                   !.error = "ValueError"]
             ELSE [NotRun EXCEPT !.angles = ang, !.plot_values = pv,
                                 !.ylim = <<Num(0), top>>]

---------------------------------------------------------------------------
\* the bar branch

\* faulty variant: rounds to the nearest integer, int(val + 0.5)
PyRound(x) == (2 * x.num + x.den) \div (2 * x.den)

\* int(val): truncation toward zero
PyInt(x) == IF x.num >= 0 THEN x.num \div x.den
            ELSE -((-x.num) \div x.den)

Digit(d) == CASE d = 0 -> "0" [] d = 1 -> "1" [] d = 2 -> "2" [] d = 3 -> "3"
              [] d = 4 -> "4" [] d = 5 -> "5" [] d = 6 -> "6" [] d = 7 -> "7"
              [] d = 8 -> "8" [] d = 9 -> "9"

RECURSIVE NatToStr(_)
NatToStr(n) == IF n < 10 THEN Digit(n)
               ELSE NatToStr(n \div 10) \o Digit(n % 10)

\* f'{k}' of an int k
IntToStr(k) == IF k < 0 THEN "-" \o NatToStr(-k) ELSE NatToStr(k)

\* f'{int(val)}'
Annotation(val) == IntToStr(PyInt(val))

\* the annotation loop: one text per bar until int(val) raises on NaN
RECURSIVE BarTexts(_)
BarTexts(fv) ==
  IF fv = << >> THEN [texts |-> << >>, error |-> "none"]
  ELSE IF IsNaN(fv[1]) THEN [texts |-> << >>, error |-> "ValueError"]
  ELSE LET r == BarTexts(Tail(fv))
       IN [texts |-> <<Annotation(fv[1])>> \o r.texts, error |-> r.error]

RenderBar(lab, fv) ==
  LET b == BarTexts(fv)
  IN [NotRun EXCEPT !.texts = b.texts, !.error = b.error]

---------------------------------------------------------------------------
\* the script: the widgets' values, then one run

Radar == "radar"
Bar   == "bar"

NoLabel == "None"

default_data ==
  << [label |-> "innovation",  value |-> Num(85)],
     [label |-> "feasibility", value |-> Num(90)],
     [label |-> "business",    value |-> Num(70)],
     [label |-> "team",        value |-> Num(95)],
     [label |-> "technology",  value |-> Num(60)] >>

\* the row data_editor appends: every cell empty (the number column reads NaN)
EmptyRow == [label |-> NoLabel, value |-> NaN]

\* numbers the user types into a value cell
CellChoices == {-10, 5, 10, 90, 91, 100}

\* a row of the table: one the user filled in, or one just added
Rows == {[label |-> "X", value |-> Num(v)] : v \in CellChoices} \cup {EmptyRow}

\* the tables the user can have built: the default, or up to MaxRows rows
Tables == {default_data} \cup UNION {[1..n -> Rows] : n \in 0..MaxRows}

\* slider positions (min 1.0, max 3.0, default 1.2; tenths are exact here)
SliderChoices == {Rat(10, 10), Rat(12, 10), Rat(20, 10), Rat(30, 10)}

Init ==
  /\ pc = "data"
  /\ df \in Tables
  /\ contrast_factor \in SliderChoices
  /\ chart_style \in {Radar, Bar}
  /\ labels = << >>
  /\ raw_values = << >>
  /\ final_values = << >>
  /\ angles = << >>
  /\ plot_values = << >>
  /\ ylim = << >>
  /\ texts = << >>
  /\ error = "none"

\* lines 75-79: the two columns as lists, and the amplified values
ProcessData ==
  /\ pc = "data"
  /\ labels' = [i \in 1..Len(df) |-> df[i].label]
  /\ raw_values' = [i \in 1..Len(df) |-> df[i].value]
  /\ final_values' = amplify_data(raw_values', contrast_factor)
  /\ pc' = "plot"
  /\ UNCHANGED <<df, contrast_factor, chart_style, angles, plot_values, ylim,
                 texts, error>>

\* lines 82-110
DrawRadar ==
  /\ pc = "plot"
  /\ chart_style = Radar
  /\ LET out == RenderRadar(labels, final_values)
     IN /\ angles' = out.angles
        /\ plot_values' = out.plot_values
        /\ ylim' = out.ylim
        /\ error' = out.error
  /\ pc' = "done"
  /\ UNCHANGED <<df, contrast_factor, chart_style, labels, raw_values,
                 final_values, texts>>

\* lines 112-130
DrawBar ==
  /\ pc = "plot"
  /\ chart_style # Radar
  /\ LET out == RenderBar(labels, final_values)
     IN /\ texts' = out.texts
        /\ error' = out.error
  /\ pc' = "done"
  /\ UNCHANGED <<df, contrast_factor, chart_style, labels, raw_values,
                 final_values, angles, plot_values, ylim>>

Next == ProcessData \/ DrawRadar \/ DrawBar

Spec == Init /\ [][Next]_vars

---------------------------------------------------------------------------
\* properties

\* equality of two numbers as floats compare: false when either is NaN
REq(a, b) == ~IsNaN(a) /\ ~IsNaN(b) /\ a.num * b.den = b.num * a.den

Numeric(s) == \A i \in 1..Len(s) : ~IsNaN(s[i])

Amplified == pc # "data"
Drawn     == pc = "done"

One == Rat(10, 10)

\* C1: whatever the signs of the input values and whatever the factor, every
\* value amplify_data returns is >= 0.
C1_AmplifiedNonNegative ==
  (Amplified /\ Numeric(raw_values))
    => \A i \in 1..Len(final_values) : RGe(final_values[i], Num(0))

\* a negative input value was amplified (and clamped to 0)
C1_Witness ==
  /\ Amplified
  /\ Numeric(raw_values)
  /\ \E i \in 1..Len(raw_values) :
        RGt(Num(0), raw_values[i]) /\ final_values[i] = Num(0)

\* C2: an empty value sequence is rejected with InvalidInput: no amplified
\* result is returned and no later error of the run takes its place.
C2_EmptyInputRejected ==
  (Drawn /\ df = << >>) => error = "InvalidInput"

\* C3 as stated: for a factor > 1 and any two values v_i > v_j, the amplified
\* difference is at least the original difference.
C3_SpreadNeverShrinks ==
  (Amplified /\ Numeric(raw_values) /\ RGt(contrast_factor, One))
    => \A i, j \in 1..Len(raw_values) :
         RGt(raw_values[i], raw_values[j])
           => RGe(RSub(final_values[i], final_values[j]),
                  RSub(raw_values[i], raw_values[j]))

\* C3 amended: for a factor >= 1 and any two values v_i > v_j of which the
\* smaller is not clamped (mean + (v_j - mean) * factor >= 0), the amplified
\* difference is at least the original difference, with equality exactly at
\* factor = 1.
C3_SpreadGrowsUnclamped ==
  (Amplified /\ Numeric(raw_values))
    => LET st == Stretch(raw_values, contrast_factor)
       IN \A i, j \in 1..Len(raw_values) :
            (RGt(raw_values[i], raw_values[j]) /\ RGe(st[j], Num(0)))
              => LET after  == RSub(final_values[i], final_values[j])
                     before == RSub(raw_values[i], raw_values[j])
                 IN /\ RGe(after, before)
                    /\ REq(after, before) <=> contrast_factor = One

\* a factor > 1, two different values with the smaller one unclamped, and a
\* third value that is clamped
C3_Witness ==
  /\ Amplified
  /\ Numeric(raw_values)
  /\ RGt(contrast_factor, One)
  /\ LET st == Stretch(raw_values, contrast_factor)
     IN /\ \E i, j \in 1..Len(raw_values) :
             RGt(raw_values[i], raw_values[j]) /\ RGe(st[j], Num(0))
        /\ \E k \in 1..Len(raw_values) : RGt(Num(0), st[k])

\* C4: at factor 1.0 a non-empty sequence of values that are all >= 0 comes
\* back unchanged: same length, same order, same values.
C4_IdentityAtOne ==
  (/\ Amplified
   /\ contrast_factor = One
   /\ Len(raw_values) >= 1
   /\ \A i \in 1..Len(raw_values) : RGe(raw_values[i], Num(0)))
    => /\ Len(final_values) = Len(raw_values)
       /\ \A i \in 1..Len(raw_values) : REq(final_values[i], raw_values[i])

\* factor 1.0 applied to non-negative values that differ from their mean
C4_Witness ==
  /\ Amplified
  /\ contrast_factor = One
  /\ Len(raw_values) >= 2
  /\ \A i \in 1..Len(raw_values) : RGe(raw_values[i], Num(0))
  /\ RGt(raw_values[1], raw_values[2])
  /\ final_values = raw_values

\* C5: in the radar branch, for N >= 1 rows, the closed angle list and the
\* closed value list both have N + 1 elements, each ends with its first
\* element, and angle i (counted from 0) is i/N of a full turn.
C5_RadarClosure ==
  (Drawn /\ chart_style = Radar /\ Len(df) >= 1)
    => LET N == Len(df)
       IN /\ Len(angles) = N + 1
          /\ Len(plot_values) = N + 1
          /\ REq(angles[N + 1], angles[1])
          /\ Numeric(raw_values) => REq(plot_values[N + 1], plot_values[1])
          /\ \A i \in 1..N :
                /\ angles[i].den > 0
                /\ angles[i].num * N = (i - 1) * angles[i].den
                /\ plot_values[i] = final_values[i]

\* a radar of three or more points whose first two values differ
C5_Witness ==
  /\ Drawn
  /\ chart_style = Radar
  /\ Len(df) >= 3
  /\ error = "none"
  /\ RGt(plot_values[2], plot_values[1])
  /\ plot_values[Len(df) + 1] = plot_values[1]
  /\ angles[2] = Rat(1, Len(df))

\* C6: in the radar branch the radial axis runs from 0 to exactly 1.1 times
\* the largest amplified value (not the largest raw value).
C6_RadarAxisBound ==
  (Drawn /\ chart_style = Radar /\ Len(df) >= 1 /\ Numeric(raw_values))
    => /\ Len(ylim) = 2
       /\ ylim[1] = Num(0)
       /\ \E i \in 1..Len(final_values) :
             /\ \A j \in 1..Len(final_values) :
                   RGe(final_values[i], final_values[j])
             /\ ylim[2].den > 0
             /\ 10 * ylim[2].num * final_values[i].den
                  = 11 * final_values[i].num * ylim[2].den

\* the default table at the default factor 1.2: the largest amplified value
\* is 98, not the largest raw value 95, and the upper limit is 107.8
C6_Witness ==
  /\ Drawn
  /\ chart_style = Radar
  /\ df = default_data
  /\ contrast_factor = Rat(12, 10)
  /\ final_values = <<Num(86), Num(92), Num(68), Num(98), Num(56)>>
  /\ ylim = <<Num(0), Rat(1078, 10)>>

\* C7: in the bar branch every bar gets exactly one annotation, in input
\* order, and it is the amplified value truncated to an integer, not
\* rounded: 89.9 is labelled "89" and 90.0 is labelled "90".
C7_BarAnnotationTruncates ==
  (Drawn /\ chart_style = Bar /\ Numeric(raw_values))
    => /\ Len(texts) = Len(final_values)
       /\ \A i \in 1..Len(final_values) :
             LET v == final_values[i]
                 k == v.num \div v.den
             IN /\ k * v.den <= v.num
                /\ v.num < (k + 1) * v.den
                /\ texts[i] = IntToStr(k)
                /\ v = Rat(899, 10) => texts[i] = "89"
                /\ v = Num(90) => texts[i] = "90"

\* a bar chart with a bar of height 89.9, annotated "89"
C7_Witness ==
  /\ Drawn
  /\ chart_style = Bar
  /\ error = "none"
  /\ \E i \in 1..Len(final_values) :
        final_values[i] = Rat(899, 10) /\ texts[i] = "89"

\* C8: a radar of one or two points is drawn without an error; the one-point
\* table [10] at factor 2.0 is amplified to [10] and drawn.
C8_SmallRadarCompletes ==
  (Drawn /\ chart_style = Radar /\ Len(df) \in {1, 2} /\ Numeric(raw_values))
    => /\ error = "none"
       /\ Len(ylim) = 2
       /\ (raw_values = <<Num(10)>> /\ contrast_factor = Num(2))
            => final_values = <<Num(10)>>

\* the one-point radar of the value 10 at factor 2.0
C8_Witness ==
  /\ Drawn
  /\ chart_style = Radar
  /\ raw_values = <<Num(10)>>
  /\ contrast_factor = Num(2)
  /\ final_values = <<Num(10)>>
  /\ plot_values = <<Num(10), Num(10)>>
  /\ error = "none"

\* C9: a missing or non-numeric value makes the amplifier fail fast with
\* InvalidInput: no amplified sequence is computed from it and the run does
\* not end in another, unhandled error.
C9_NonNumericFailsFast ==
  (Drawn /\ \E i \in 1..Len(df) : IsNaN(df[i].value))
    => (error = "InvalidInput" /\ final_values = << >>)

\* C10: for a non-empty input and a factor >= 1, when no value is clamped the
\* mean of the amplified values is the mean of the input, values above the
\* mean do not decrease and values below it do not increase; when some value
\* is clamped the amplified mean is strictly greater than the input mean.
\* The values [5, 100] at factor 3.0 become [0, 195].
C10_MeanKeptUnlessClamped ==
  (/\ Amplified
   /\ Len(raw_values) >= 1
   /\ Numeric(raw_values)
   /\ RGe(contrast_factor, One))
    => LET st == Stretch(raw_values, contrast_factor)
           m  == np_mean(raw_values)
           m2 == np_mean(final_values)
       IN /\ IF \A i \in 1..Len(st) : RGe(st[i], Num(0))
               THEN /\ REq(m2, m)
                    /\ \A i \in 1..Len(raw_values) :
                          /\ RGt(raw_values[i], m)
                               => RGe(final_values[i], raw_values[i])
                          /\ RGt(m, raw_values[i])
                               => RGe(raw_values[i], final_values[i])
               ELSE RGt(m2, m)
          /\ (raw_values = <<Num(5), Num(100)>> /\ contrast_factor = Num(3))
               => final_values = <<Num(0), Num(195)>>

\* the values [5, 100] at factor 3.0: the 5 is clamped from -90 to 0
C10_Witness ==
  /\ Amplified
  /\ raw_values = <<Num(5), Num(100)>>
  /\ contrast_factor = Num(3)
  /\ final_values = <<Num(0), Num(195)>>
  /\ RGt(np_mean(final_values), np_mean(raw_values))

===========================================================================
